---- MODULE Spec2Model ----
(***************************************************************************)
(* Issue search of sentry.search.django.backend: the two search paths      *)
(* DjangoSearchBackend.query and EnvironmentDjangoSearchBackend.query over *)
(* a relational store of Groups (issues), their per-environment records,   *)
(* tag values and events.                                                  *)
(*                                                                         *)
(* A queryset is modelled by what it selects: a record with the set of     *)
(* selected group ids (`ids`), the names of the filter stages applied to   *)
(* it so far (`applied`) and whether the builder returned early            *)
(* (`returned`) or raised (`error`).  Keyword arguments are a function whose DOMAIN is the set *)
(* of keywords the caller passed, so `k \in DOMAIN kw` is `k in kwargs`.   *)
(***************************************************************************)
EXTENDS Integers, Sequences, FiniteSets, TLC

\* ------------------------------------------------------------------ bounds
NumGroups == 3          \* group (issue) ids are 1..NumGroups
MaxScalar == 3          \* timestamps and counters range over 1..MaxScalar

\* ------------------------------------------------------- program constants
DefaultLimit == 100     \* kwargs.get('limit', 100)
EventGroupCap == 1000   \* values_list('group_id', flat=True)[:1000]

Project == "p1"                 \* the project being searched
OrganizationId == "o1"          \* project.organization_id
Users == {"u1", "u2"}
NoUser == "None"                \* a group without an assignee row

UNRESOLVED == "unresolved"
RESOLVED == "resolved"
IGNORED == "ignored"
PENDING_DELETION == "pending_deletion"
DELETION_IN_PROGRESS == "deletion_in_progress"
PENDING_MERGE == "pending_merge"
GroupStatus ==
    {UNRESOLVED, RESOLVED, IGNORED, PENDING_DELETION, DELETION_IN_PROGRESS, PENDING_MERGE}

EMPTY == "<EMPTY>"              \* sentry.search.base.EMPTY, no release version equals it
ANY == "<ANY>"                  \* sentry.search.base.ANY, no tag value equals it

GroupIds == 1..NumGroups
Scalars == 1..MaxScalar

\* Release rows: (id, organization, version)
Release ==
    { [id |-> 1, organization |-> "o1", version |-> "v1"],
      [id |-> 2, organization |-> "o1", version |-> "v2"],
      [id |-> 3, organization |-> "o2", version |-> "v1"] }
NoRelease == 0                  \* a NULL first_release reference

\* Environment rows: (id, name, project)
Environment ==
    { [id |-> 1, name |-> "prod", project |-> "p1"],
      [id |-> 2, name |-> "staging", project |-> "p1"],
      [id |-> 3, name |-> "prod", project |-> "p2"] }

VARIABLES
    groups,              \* Group table: id -> row
    group_environments,  \* GroupEnvironment rows
    group_tag_values,    \* GroupTagValue rows
    events,              \* Event rows
    kwargs,              \* keyword arguments the caller passes (all but tags and cursor)
    tags,                \* the caller's tags mapping object, passed by reference
    cursor,              \* cursor passed to the last call
    result,              \* what the last call returned
    pages,               \* concatenation of the pages of the current pagination run
    session,             \* the current pagination run: backend, first filters, deletions
    trace                \* what the last call did: stages applied, candidate sets

store == <<groups, group_environments, group_tag_values, events>>
vars == <<groups, group_environments, group_tag_values, events,
          kwargs, tags, cursor, result, pages, session, trace>>

\* ------------------------------------------------------------ small helpers
Has(kw, k) == k \in DOMAIN kw

Without(f, k) == [x \in (DOMAIN f) \ {k} |-> f[x]]

Min(a, b) == IF a < b THEN a ELSE b
Max(a, b) == IF a > b THEN a ELSE b

Lower(c) ==
    CASE c = "A" -> "a"
      [] c = "B" -> "b"
      [] OTHER -> c

\* message__icontains=query: case-insensitive substring over character sequences
IContains(text, q) ==
    \E i \in 0..(Len(text) - Len(q)) :
        \A j \in 1..Len(q) : Lower(text[i + j]) = Lower(q[j])

\* Lookup with the 'e' suffix always appended: every bound is inclusive
Lookup_always_inclusive(v, operator, inclusive, bound) ==
    IF operator = "gt" THEN v >= bound ELSE v <= bound

\* field__gt / field__gte / field__lt / field__lte
Lookup(v, operator, inclusive, bound) ==
    CASE operator = "gt" /\ inclusive  -> v >= bound
      [] operator = "gt" /\ ~inclusive -> v > bound
      [] operator = "lt" /\ inclusive  -> v <= bound
      [] operator = "lt" /\ ~inclusive -> v < bound

\* Group.objects.filter(project=project)
GroupObjects ==
    [ids |-> {g \in DOMAIN groups : groups[g].project = Project},
     applied |-> {},
     returned |-> FALSE,
     error |-> ""]

FilterQS(qs, stage, P(_)) ==
    [qs EXCEPT !.ids = {g \in @ : P(g)}, !.applied = @ \cup {stage}]

\* queryset.none()
NoneQS(qs) == [qs EXCEPT !.ids = {}, !.returned = TRUE]

DefaultExcluded == {PENDING_DELETION, DELETION_IN_PROGRESS, PENDING_MERGE}

ReleaseMatches(release_id, version) ==
    \E r \in Release :
        /\ r.id = release_id
        /\ r.organization = OrganizationId
        /\ r.version = version

\* GroupTagKey rows: the tag store keeps one row per (group, key) that has a value
GroupTagKey ==
    {[group_id |-> r.group_id, key |-> r.key, project_id |-> r.project_id] :
        r \in group_tag_values}

TagMatches(g, key, value) ==
    IF value = ANY
    THEN \E r \in GroupTagKey : r.group_id = g /\ r.key = key
    ELSE \E r \in group_tag_values : r.group_id = g /\ r.key = key /\ r.value = value

\* tagstore.get_group_ids_for_search_filter(project_id, environment_id, tags)
get_group_ids_for_search_filter(kw, tg) ==
    {g \in DOMAIN groups :
        /\ groups[g].project = Project
        /\ Has(kw, "environment_id") =>
              \E ge \in group_environments :
                  ge.group_id = g /\ ge.environment_id = kw.environment_id
        /\ \A k \in DOMAIN tg : TagMatches(g, k, tg[k])}

\* ------------------------------------------ DjangoSearchBackend._build_queryset
\* keyword defaults of _build_queryset: every *_inclusive flag defaults to True
Inclusive(kw, flag) == IF Has(kw, flag) THEN kw[flag] ELSE TRUE

\* if query: filter(Q(message__icontains=query) | Q(culprit__icontains=query))
Dj_query(qs, kw) ==
    IF Has(kw, "query") /\ kw.query # <<>>
    THEN FilterQS(qs, "query",
            LAMBDA g : IContains(groups[g].message, kw.query)
                       \/ IContains(groups[g].culprit, kw.query))
    ELSE qs

\* if status is None: exclude(status__in=...) else: filter(status=status)
Dj_status(qs, kw) ==
    IF ~Has(kw, "status")
    THEN FilterQS(qs, "status_default", LAMBDA g : groups[g].status \notin DefaultExcluded)
    ELSE FilterQS(qs, "status", LAMBDA g : groups[g].status = kw.status)

Dj_bookmarked_by(qs, kw) ==
    IF Has(kw, "bookmarked_by")
    THEN FilterQS(qs, "bookmarked_by", LAMBDA g : kw.bookmarked_by \in groups[g].bookmarks)
    ELSE qs

\* if assigned_to: ... elif unassigned in (True, False): ...
Dj_assigned(qs, kw) ==
    IF Has(kw, "assigned_to")
    THEN FilterQS(qs, "assigned_to", LAMBDA g : groups[g].assignee = kw.assigned_to)
    ELSE IF Has(kw, "unassigned")
    THEN FilterQS(qs, "unassigned",
            LAMBDA g : (groups[g].assignee = NoUser) = kw.unassigned)
    ELSE qs

Dj_subscribed_by(qs, kw) ==
    IF Has(kw, "subscribed_by")
    THEN FilterQS(qs, "subscribed_by", LAMBDA g : kw.subscribed_by \in groups[g].subscriptions)
    ELSE qs

\* if first_release: if first_release is EMPTY: return queryset.none()
Dj_first_release(qs, kw) ==
    IF ~Has(kw, "first_release") THEN qs
    ELSE IF kw.first_release = EMPTY THEN NoneQS(qs)
    ELSE FilterQS(qs, "first_release",
            LAMBDA g : ReleaseMatches(groups[g].first_release, kw.first_release))

\* if tags: matches = tagstore...; if not matches: return queryset.none()
Dj_tags(qs, kw, tg) ==
    IF DOMAIN tg = {} THEN qs
    ELSE LET matches == get_group_ids_for_search_filter(kw, tg)
             called == [qs EXCEPT !.applied = @ \cup {"tagstore"}]
         IN IF matches = {} THEN NoneQS(called)
            ELSE FilterQS(called, "tags", LAMBDA g : g \in matches)

\* the four "if x_from or x_to: params = {...}; queryset.filter(**params)" blocks
Dj_range(qs, kw, lower, upper, field) ==
    IF Has(kw, lower) \/ Has(kw, upper)
    THEN FilterQS(qs, field,
            LAMBDA g :
                /\ Has(kw, lower) =>
                     Lookup(groups[g][field], "gt",
                            Inclusive(kw, lower \o "_inclusive"), kw[lower])
                /\ Has(kw, upper) =>
                     Lookup(groups[g][field], "lt",
                            Inclusive(kw, upper \o "_inclusive"), kw[upper]))
    ELSE qs

Dj_times_seen(qs, kw) ==
    IF Has(kw, "times_seen")
    THEN FilterQS(qs, "times_seen_eq", LAMBDA g : groups[g].times_seen = kw.times_seen)
    ELSE qs

\* event_queryset.distinct().values_list('group_id', flat=True)[:1000]
EventGroupIds(kw) ==
    LET matching ==
            {e \in events :
                /\ e.project_id = Project
                /\ Has(kw, "date_from") =>
                     Lookup(e.datetime, "gt", Inclusive(kw, "date_from_inclusive"), kw.date_from)
                /\ Has(kw, "date_to") =>
                     Lookup(e.datetime, "lt", Inclusive(kw, "date_to_inclusive"), kw.date_to)
                /\ (Has(kw, "query") /\ kw.query # <<>>) => IContains(e.message, kw.query)}
        group_ids == {e.group_id : e \in matching}
    IN IF Cardinality(group_ids) <= EventGroupCap
       THEN group_ids
       ELSE CHOOSE S \in SUBSET group_ids : Cardinality(S) = EventGroupCap

Dj_date(qs, kw) ==
    IF Has(kw, "date_from") \/ Has(kw, "date_to")
    THEN FilterQS(qs, "date", LAMBDA g : g \in EventGroupIds(kw))
    ELSE qs

\* the filter blocks of _build_queryset, in the order of the code
DjangoStages ==
    <<"query", "status", "bookmarked_by", "assigned_to", "subscribed_by", "first_release",
      "tags", "age", "last_seen", "active_at", "times_seen", "times_seen_range", "date">>

Dj_stage(stage, qs, kw, tg) ==
    CASE stage = "query" -> Dj_query(qs, kw)
      [] stage = "status" -> Dj_status(qs, kw)
      [] stage = "bookmarked_by" -> Dj_bookmarked_by(qs, kw)
      [] stage = "assigned_to" -> Dj_assigned(qs, kw)
      [] stage = "subscribed_by" -> Dj_subscribed_by(qs, kw)
      [] stage = "first_release" -> Dj_first_release(qs, kw)
      [] stage = "tags" -> Dj_tags(qs, kw, tg)
      [] stage = "age" -> Dj_range(qs, kw, "age_from", "age_to", "first_seen")
      [] stage = "last_seen" -> Dj_range(qs, kw, "last_seen_from", "last_seen_to", "last_seen")
      [] stage = "active_at" -> Dj_range(qs, kw, "active_at_from", "active_at_to", "active_at")
      [] stage = "times_seen" -> Dj_times_seen(qs, kw)
      [] stage = "times_seen_range" ->
            Dj_range(qs, kw, "times_seen_lower", "times_seen_upper", "times_seen")
      [] stage = "date" -> Dj_date(qs, kw)

\* the blocks in turn, up to the first `return queryset.none()`
RECURSIVE Dj_run(_, _, _, _)
Dj_run(stages, qs, kw, tg) ==
    IF stages = <<>> \/ qs.returned THEN qs
    ELSE Dj_run(Tail(stages), Dj_stage(Head(stages), qs, kw, tg), kw, tg)

build_queryset(kw, tg) == Dj_run(DjangoStages, GroupObjects, kw, tg)

\* ------------------------------------------------------------- pagination
\* Cursor(value, offset, is_prev, has_results); `given` is FALSE for cursor=None
NoCursor == [given |-> FALSE, value |-> 0, offset |-> 0, is_prev |-> FALSE, has_results |-> FALSE]

PairGreater(a, b) == a[1] > b[1] \/ (a[1] = b[1] /\ a[2] > b[2])

MaxPair(S) == CHOOSE a \in S : \A b \in S \ {a} : PairGreater(a, b)

\* sorted(data, reverse=True) over (score, id) pairs
RECURSIVE SortedReverse(_)
SortedReverse(S) ==
    IF S = {} THEN <<>>
    ELSE LET m == MaxPair(S) IN <<m>> \o SortedReverse(S \ {m})

\* index (from 0) of the first score <= v in a descending list of scores
Search(scores, v) == Cardinality({i \in 1..Len(scores) : scores[i] > v})

Page(results, prev, next) ==
    [kind |-> "page", results |-> results, prev |-> prev, next |-> next, error |-> ""]

Raised(error) ==
    [kind |-> "error", results |-> <<>>, prev |-> NoCursor, next |-> NoCursor, error |-> error]

\* ranked-sequence pagination: the page of `limit` rows at the cursor's position
\* in the ranking, with cursors that name the boundary row's score and an offset
\* among the rows of equal score
get_result(data, limit, cur) ==
    LET ranked == SortedReverse(data)
        n == Len(ranked)
        scores == [i \in 1..n |-> ranked[i][1]]
        values == [i \in 1..n |-> ranked[i][2]]
        position ==
            IF cur.given THEN Search(scores, cur.value) + cur.offset
            ELSE IF cur.is_prev THEN n ELSE 0
        lo == IF cur.is_prev THEN Max(Min(position, n) - limit, 0) ELSE Min(Max(position, 0), n)
        hi == IF cur.is_prev THEN Min(position, n) ELSE Min(lo + limit, n)
        prev_score == scores[Min(lo, n - 1) + 1]
        next_score == scores[Min(hi, n - 1) + 1]
    IN IF n = 0
       THEN Page(<<>>, [NoCursor EXCEPT !.given = TRUE, !.is_prev = TRUE],
                       [NoCursor EXCEPT !.given = TRUE])
       ELSE Page(SubSeq(values, lo + 1, hi),
                 [given |-> TRUE, value |-> prev_score,
                  offset |-> lo - Min(lo, Search(scores, prev_score)),
                  is_prev |-> TRUE, has_results |-> lo > 0],
                 [given |-> TRUE, value |-> next_score,
                  offset |-> hi - Min(hi, Search(scores, next_score)),
                  is_prev |-> FALSE, has_results |-> hi < n])

\* ----------------------------------------------------------------- ranking
\* 600 * log10(n) in thousandths
Log600(n) ==
    CASE n <= 1 -> 0
      [] n = 2 -> 180618
      [] n = 3 -> 286273
      [] n = 4 -> 361236
      [] n = 5 -> 419382
      [] n = 6 -> 466891
      [] n = 7 -> 507059
      [] OTHER -> 541854

SortByValues == {"date", "priority", "new", "freq"}

\* sort_strategies[sort_by][0] evaluated on a row; timestamps are in seconds and
\* the priority expression is kept in thousandths
sort_expression(sort_by, row) ==
    CASE sort_by = "priority" -> Log600(row.times_seen) + row.last_seen * 1000
      [] sort_by = "date" -> row.last_seen
      [] sort_by = "new" -> row.first_seen
      [] sort_by = "freq" -> row.times_seen

\* sort_strategies[sort_by][1]: int(score) or int(to_timestamp(score) * 1000)
value_to_cursor_score(sort_by, score) ==
    CASE sort_by = "priority" -> score \div 1000
      [] sort_by = "date" -> score * 1000
      [] sort_by = "new" -> score * 1000
      [] sort_by = "freq" -> score

\* the column named by sort_clause: -last_seen, -score, -first_seen, -times_seen
sort_clause(sort_by, row) ==
    CASE sort_by = "date" -> row.last_seen
      [] sort_by = "priority" -> (Log600(row.times_seen) + row.last_seen * 1000) \div 1000
      [] sort_by = "new" -> row.first_seen
      [] sort_by = "freq" -> row.times_seen

SortBy(kw) == IF Has(kw, "sort_by") THEN kw.sort_by ELSE "date"

NoTrace == [applied |-> {}, initial |-> {}, candidates |-> {}, scoped |-> FALSE]

\* queryset.order_by(sort_clause); paginator_cls(queryset, sort_clause).get_result(limit, cursor)
Paginate(qs, kw, cur) ==
    get_result({<<sort_clause(SortBy(kw), groups[g]), g>> : g \in qs.ids},
               IF Has(kw, "limit") THEN kw.limit ELSE DefaultLimit, cur)

\* ------------------------------------------------ DjangoSearchBackend.query
DjangoQuery(kw, tg, cur) ==
    LET queryset == build_queryset(kw, tg)
    IN [result |-> Paginate(queryset, kw, cur),
        tags |-> tg,
        trace |-> [applied |-> queryset.applied, initial |-> queryset.ids,
                   candidates |-> queryset.ids, scoped |-> FALSE]]

\* ------------------------------------------------------------ QueryBuilder
\* the GroupTagValue row that records group g in the environment named `name`
EnvironmentTagValue(g, name) ==
    CHOOSE r \in group_tag_values :
        /\ r.project_id = Project
        /\ r.group_id = g
        /\ r.key = "environment"
        /\ r.value = name

\* the model a builder's queryset ranges over: Group rows, or the environment's
\* GroupTagValue rows (one per group)
Row(target, g) == IF target = "Group" THEN groups[g] ELSE EnvironmentTagValue(g, target)

ScalarParameters ==
    {"active_at_from", "active_at_to", "age_from", "age_to", "last_seen_from",
     "last_seen_to", "times_seen_lower", "times_seen_upper"}

\* scalar_condition(parameter, field, operator): the field it filters
ScalarField(parameter) ==
    CASE parameter \in {"active_at_from", "active_at_to"} -> "active_at"
      [] parameter \in {"age_from", "age_to"} -> "first_seen"
      [] parameter \in {"last_seen_from", "last_seen_to"} -> "last_seen"
      [] parameter \in {"times_seen_lower", "times_seen_upper"} -> "times_seen"

\* scalar_condition(parameter, field, operator): 'gt' for lower bounds, 'lt' for upper
ScalarOperator(parameter) ==
    IF parameter \in {"active_at_from", "age_from", "last_seen_from", "times_seen_lower"}
    THEN "gt" ELSE "lt"

\* '{}__{}{}'.format(field, operator, 'e' if inclusive else ''): value
scalar_condition(qs, parameter, value, inclusive, target) ==
    FilterQS(qs, parameter,
        LAMBDA g : Lookup(Row(target, g)[ScalarField(parameter)],
                          ScalarOperator(parameter), inclusive, value))

\* first_release handler of the environment branch: GroupEnvironment.first_release_id
\* joined to Release on organization and version
EnvFirstRelease(qs, kw, version) ==
    FilterQS(qs, "first_release",
        LAMBDA g : \E ge \in group_environments :
            /\ ge.group_id = g
            /\ ge.environment_id = kw.environment_id
            /\ ReleaseMatches(ge.first_release_id, version))

\* one registered handler applied to the queryset; the parameter is present
Handler(qs, parameter, kw, target) ==
    CASE parameter = "query" ->
            IF kw.query # <<>>
            THEN FilterQS(qs, "query",
                    LAMBDA g : IContains(groups[g].message, kw.query)
                               \/ IContains(groups[g].culprit, kw.query))
            ELSE qs
      [] parameter = "status" ->
            FilterQS(qs, "status", LAMBDA g : groups[g].status = kw.status)
      [] parameter = "bookmarked_by" ->
            FilterQS(qs, "bookmarked_by", LAMBDA g : kw.bookmarked_by \in groups[g].bookmarks)
      [] parameter = "assigned_to" ->
            FilterQS(qs, "assigned_to", LAMBDA g : groups[g].assignee = kw.assigned_to)
      [] parameter = "unassigned" ->
            FilterQS(qs, "unassigned",
                LAMBDA g : (groups[g].assignee = NoUser) = kw.unassigned)
      [] parameter = "subscribed_by" ->
            FilterQS(qs, "subscribed_by",
                LAMBDA g : kw.subscribed_by \in groups[g].subscriptions)
      [] parameter = "first_release" ->
            IF target = "GroupEnvironment"
            THEN EnvFirstRelease(qs, kw, kw.first_release)
            ELSE FilterQS(qs, "first_release",
                    LAMBDA g : ReleaseMatches(groups[g].first_release, kw.first_release))
      [] parameter = "times_seen" ->
            FilterQS(qs, "times_seen_eq",
                LAMBDA g : Row(target, g).times_seen = kw.times_seen)
      [] parameter \in ScalarParameters ->
            IF Has(kw, parameter \o "_inclusive")
            THEN scalar_condition(qs, parameter, kw[parameter],
                                  kw[parameter \o "_inclusive"], target)
            ELSE [qs EXCEPT !.error = "KeyError"]

\* a build that returns after the first handler it invokes
RECURSIVE build_first_only(_, _, _, _)
build_first_only(handlers, qs, kw, target) ==
    IF handlers = <<>> THEN qs
    ELSE IF Has(kw, Head(handlers)) THEN Handler(qs, Head(handlers), kw, target)
    ELSE build_first_only(Tail(handlers), qs, kw, target)

\* QueryBuilder.build: every handler whose parameter is in `parameters`, in the
\* order `handlers` lists them
RECURSIVE build(_, _, _, _)
build(handlers, qs, kw, target) ==
    IF handlers = <<>> \/ qs.error # "" THEN qs
    ELSE build(Tail(handlers),
               IF Has(kw, Head(handlers)) THEN Handler(qs, Head(handlers), kw, target) ELSE qs,
               kw, target)

BaseHandlers ==
    <<"query", "status", "bookmarked_by", "assigned_to", "unassigned", "subscribed_by",
      "active_at_from", "active_at_to">>
EnvironmentHandlers == <<"first_release">>
TagValueHandlers ==
    <<"age_from", "age_to", "last_seen_from", "last_seen_to", "times_seen",
      "times_seen_lower", "times_seen_upper">>
GroupHandlers == <<"first_release">> \o TagValueHandlers

Reverse(seq) == [i \in 1..Len(seq) |-> seq[Len(seq) + 1 - i]]

\* handlers.items() iterates a dict: the order is the interpreter's
HandlerOrders == {"declared", "reversed"}
Ordered(handlers, order) == IF order = "declared" THEN handlers ELSE Reverse(handlers)

\* the orders tags.items() can produce
ItemOrders(tg) ==
    {o \in [1..Cardinality(DOMAIN tg) -> DOMAIN tg] :
        \A i, j \in DOMAIN o : i # j => o[i] # o[j]}

\* -------------------------------------- EnvironmentDjangoSearchBackend.query
\* assert 'date_from' not in kwargs and 'date_from' not in kwargs
DateRangeAssertion(kw) == ~Has(kw, "date_from") /\ ~Has(kw, "date_from")

\* Group.objects.filter(project=project).exclude(status__in=[...])
EnvBase == FilterQS(GroupObjects, "status_default",
                    LAMBDA g : groups[g].status \notin DefaultExcluded)

\* JoinGroupEnvironment without the environment_id condition
JoinGroupEnvironment_any_environment(qs, environment_id) ==
    FilterQS(qs, "group_environment",
        LAMBDA g : \E ge \in group_environments : ge.group_id = g)

\* queryset.extra(where=[Group.id = GroupEnvironment.group_id,
\*                       GroupEnvironment.environment_id = %s])
JoinGroupEnvironment(qs, environment_id) ==
    FilterQS(qs, "group_environment",
        LAMBDA g : \E ge \in group_environments :
            ge.group_id = g /\ ge.environment_id = environment_id)

\* GroupTagValue.objects.filter(project_id=project.id, key='environment',
\*                              value=..., group_id__in=set(queryset))
EnvironmentTagValues(qs, name) ==
    FilterQS(qs, "environment_tag",
        LAMBDA g : \E r \in group_tag_values :
            /\ r.project_id = Project
            /\ r.group_id = g
            /\ r.key = "environment"
            /\ r.value = name)

\* TagLoop that leaves the loop after the first tag filter
TagLoop_first_only(order, tg, candidates) ==
    IF order = <<>> THEN candidates
    ELSE {g \in candidates : TagMatches(g, Head(order), tg[Head(order)])}

\* for key, value in tags.items(): ... del candidates[id]
RECURSIVE TagLoop(_, _, _)
TagLoop(order, tg, candidates) ==
    IF order = <<>> THEN candidates
    ELSE LET key == Head(order)
             queryset == {g \in candidates : TagMatches(g, key, tg[key])}
         IN TagLoop(Tail(order), tg, candidates \ (candidates \ queryset))

\* filter(None, map(Group.objects.in_bulk(result.results).get, result.results))
\* Hydrate that keeps the ids in_bulk did not find
Hydrate_keep_missing(page, table) == page

\* `table` is the set of Group ids in_bulk finds at the time it runs
Hydrate(page, table) ==
    [page EXCEPT !.results = SelectSeq(page.results, LAMBDA g : g \in table)]

\* SequenceData with the pair the wrong way round: (id, score)
SequenceData_swapped(sort_by, candidates, name) ==
    {<<g, value_to_cursor_score(sort_by,
              sort_expression(sort_by, EnvironmentTagValue(g, name)))>> : g \in candidates}

\* map(lambda (id, score): (value_to_cursor_score(score), id), candidates.items())
SequenceData(sort_by, candidates, name) ==
    {<<value_to_cursor_score(sort_by,
            sort_expression(sort_by, EnvironmentTagValue(g, name))), g>> : g \in candidates}

\* the branch taken when environment_id is not None, up to the page of ids the
\* paginator returns; the search step hydrates it (Returns)
EnvScoped(kw, tg, cur, base, horder, torder) ==
    LET name == tg["environment"]
        environment == {e \in Environment : e.project = Project /\ e.name = name}
        joined == build(Ordered(EnvironmentHandlers, horder),
                        JoinGroupEnvironment(base, kw.environment_id), kw, "GroupEnvironment")
        popped == Without(tg, "environment")
        queryset == build(Ordered(TagValueHandlers, horder),
                          EnvironmentTagValues(joined, name), kw, name)
        candidates == TagLoop(torder, popped, queryset.ids)
        data == SequenceData(SortBy(kw), candidates, name)
    IN IF ~Has(tg, "environment")
       THEN [result |-> Raised("AssertionError"), tags |-> tg, trace |-> NoTrace]
       ELSE IF environment = {}
       THEN [result |-> Raised("DoesNotExist"), tags |-> tg, trace |-> NoTrace]
       ELSE IF \A e \in environment : e.id # kw.environment_id
       THEN [result |-> Raised("AssertionError"), tags |-> tg, trace |-> NoTrace]
       ELSE IF queryset.error # ""
       THEN [result |-> Raised(queryset.error), tags |-> popped, trace |-> NoTrace]
       ELSE [result |-> get_result(data, kw.limit, cur),
             tags |-> popped,
             trace |-> [applied |-> queryset.applied
                                      \cup {"tag:" \o torder[i] : i \in DOMAIN torder},
                        initial |-> queryset.ids,
                        candidates |-> candidates,
                        scoped |-> TRUE]]

\* the branch taken when environment_id is None
EnvUnscoped(kw, tg, cur, base, horder) ==
    LET built == build(Ordered(GroupHandlers, horder), base, kw, "Group")
        matches == get_group_ids_for_search_filter(kw, tg)
        called == [built EXCEPT !.applied = @ \cup {"tagstore"}]
        queryset == IF DOMAIN tg = {} THEN built
                    ELSE FilterQS(called, "tags", LAMBDA g : g \in matches)
    IN IF built.error # ""
       THEN [result |-> Raised(built.error), tags |-> tg, trace |-> NoTrace]
       ELSE IF DOMAIN tg # {} /\ matches = {}
       THEN [result |-> [kind |-> "queryset", results |-> <<>>, prev |-> NoCursor,
                         next |-> NoCursor, error |-> ""],
             tags |-> tg,
             trace |-> [applied |-> called.applied, initial |-> built.ids,
                        candidates |-> {}, scoped |-> FALSE]]
       ELSE [result |-> Paginate(queryset, kw, cur),
             tags |-> tg,
             trace |-> [applied |-> queryset.applied, initial |-> built.ids,
                        candidates |-> queryset.ids, scoped |-> FALSE]]

EnvQuery(kw, tg, cur, horder, torder) ==
    LET base == build(Ordered(BaseHandlers, horder), EnvBase, kw, "Group")
    IN IF ~DateRangeAssertion(kw)
       THEN [result |-> Raised("AssertionError"), tags |-> tg, trace |-> NoTrace]
       ELSE IF base.error # ""
       THEN [result |-> Raised(base.error), tags |-> tg, trace |-> NoTrace]
       ELSE IF Has(kw, "environment_id")
       THEN EnvScoped(kw, tg, cur, base, horder, torder)
       ELSE EnvUnscoped(kw, tg, cur, base, horder)

\* ------------------------------------------------------------------ actions
\* the caller starts a search without a cursor on DjangoSearchBackend
DjangoSearch ==
    \E r \in {DjangoQuery(kwargs, tags, NoCursor)} :
       /\ result' = r.result
       /\ tags' = r.tags
       /\ trace' = r.trace
       /\ cursor' = NoCursor
       /\ pages' = r.result.results
       /\ session' = [backend |-> "django", tags |-> tags, same_filters |-> TRUE,
                      deleted |-> {}]
       /\ UNCHANGED <<store, kwargs>>

\* the caller follows the returned next cursor on DjangoSearchBackend
DjangoNextPage ==
    /\ session.backend = "django"
    /\ result.kind = "page"
    /\ result.next.has_results
    /\ Len(pages) <= NumGroups
    /\ \E r \in {DjangoQuery(kwargs, tags, result.next)} :
          /\ result' = r.result
          /\ tags' = r.tags
          /\ trace' = r.trace
          /\ cursor' = result.next
          /\ pages' = pages \o r.result.results
          /\ session' = [session EXCEPT !.same_filters = @ /\ tags = session.tags]
    /\ UNCHANGED <<store, kwargs>>

\* no Group row has been deleted so far (one concurrent deletion per behaviour)
NoDeletionYet == DOMAIN groups = GroupIds

\* the sets of Group rows another process can delete between get_result and
\* in_bulk: none, or issues of the page the paginator returned
Deletions(r) ==
    IF r.trace.scoped /\ NoDeletionYet
    THEN SUBSET {r.result.results[i] : i \in DOMAIN r.result.results}
    ELSE {{}}

\* the Group table without the rows of `deleted`
Delete(deleted) == [g \in (DOMAIN groups) \ deleted |-> groups[g]]

\* what query returns: in the environment branch the page after
\* result.results = filter(None, map(Group.objects.in_bulk(...).get, ...))
Returns(r, table) == IF r.trace.scoped THEN Hydrate(r.result, table) ELSE r.result

\* the caller starts a search without a cursor on EnvironmentDjangoSearchBackend
EnvSearch ==
    \E horder \in HandlerOrders, torder \in ItemOrders(Without(tags, "environment")) :
        \E r \in {EnvQuery(kwargs, tags, NoCursor, horder, torder)} :
          \E deleted \in Deletions(r) :
           /\ groups' = Delete(deleted)
           /\ result' = Returns(r, DOMAIN groups \ deleted)
           /\ tags' = r.tags
           /\ trace' = r.trace
           /\ cursor' = NoCursor
           /\ pages' = result'.results
           /\ session' = [backend |-> "env", tags |-> tags, same_filters |-> TRUE,
                          deleted |-> deleted]
           /\ UNCHANGED <<group_environments, group_tag_values, events, kwargs>>

\* the caller follows the returned next cursor on EnvironmentDjangoSearchBackend
EnvNextPage ==
    /\ session.backend = "env"
    /\ result.kind = "page"
    /\ result.next.has_results
    /\ Len(pages) <= NumGroups
    /\ \E horder \in HandlerOrders, torder \in ItemOrders(Without(tags, "environment")) :
        \E r \in {EnvQuery(kwargs, tags, result.next, horder, torder)} :
          \E deleted \in Deletions(r) :
           /\ groups' = Delete(deleted)
           /\ result' = Returns(r, DOMAIN groups \ deleted)
           /\ tags' = r.tags
           /\ trace' = r.trace
           /\ cursor' = result.next
           /\ pages' = pages \o result'.results
           /\ session' = [session EXCEPT !.same_filters = @ /\ tags = session.tags,
                                         !.deleted = @ \cup deleted]
    /\ UNCHANGED <<group_environments, group_tag_values, events, kwargs>>

\* the caller builds a tags mapping equal to the one the run started with
\* (a new request carrying the same filters)
CopyFilters ==
    /\ session.backend # "none"
    /\ tags # session.tags
    /\ tags' = session.tags
    /\ UNCHANGED <<store, kwargs, cursor, result, pages, session, trace>>

SearchCall == DjangoSearch \/ DjangoNextPage \/ EnvSearch \/ EnvNextPage

Next ==
    \/ DjangoSearch
    \/ DjangoNextPage
    \/ EnvSearch
    \/ EnvNextPage
    \/ CopyFilters

\* ------------------------------------------------------------- initial states
DefaultGroup ==
    [project |-> Project, status |-> UNRESOLVED, message |-> <<"a">>, culprit |-> <<"b">>,
     assignee |-> NoUser, bookmarks |-> {}, subscriptions |-> {},
     first_release |-> NoRelease,
     first_seen |-> 1, last_seen |-> 1, active_at |-> 1, times_seen |-> 1]

\* a per-environment record keeps its own first_seen, last_seen and times_seen:
\* here the group's value moved one step round 1..MaxScalar
Shift(v) == (v % MaxScalar) + 1

\* GroupEnvironment rows: group g is recorded in the environments member[g]
GroupEnvironmentRows(grp, member) ==
    {[group_id |-> g, environment_id |-> e, first_release_id |-> grp[g].first_release] :
        g \in GroupIds, e \in 1..3} \cap
    {ge \in [group_id : GroupIds, environment_id : 1..3, first_release_id : 0..3] :
        ge.environment_id \in member[ge.group_id]}

\* GroupTagValue rows of key 'environment': group g carries the names tagged[g]
EnvironmentTagRows(grp, tagged) ==
    UNION {{[project_id |-> grp[g].project, group_id |-> g, key |-> "environment",
             value |-> n, first_seen |-> Shift(grp[g].first_seen),
             last_seen |-> Shift(grp[g].last_seen),
             times_seen |-> Shift(grp[g].times_seen)] : n \in tagged[g]} : g \in GroupIds}

\* GroupTagValue rows of other keys: group g carries the (key, value) pairs in pairs[g]
TagRows(grp, pairs) ==
    UNION {{[project_id |-> grp[g].project, group_id |-> g, key |-> kv[1],
             value |-> kv[2], first_seen |-> grp[g].first_seen,
             last_seen |-> grp[g].last_seen,
             times_seen |-> grp[g].times_seen] : kv \in pairs[g]} : g \in GroupIds}

Optional(k, V) == {<<>>} \cup {k :> v : v \in V}

Cross(A, B) == {a @@ b : a \in A, b \in B}

\* a search of the whole project, or one scoped to environment 1 ('prod')
Scopes ==
    { [kw |-> <<>>, tags |-> <<>>],
      [kw |-> "environment_id" :> 1, tags |-> "environment" :> "prod"] }

Everywhere == [g \in GroupIds |-> {1}]
TaggedProd == [g \in GroupIds |-> {"prod"}]

Start(grp, ge, gtv, ev, kw, tg) ==
    /\ groups = grp
    /\ group_environments = ge
    /\ group_tag_values = gtv
    /\ events = ev
    /\ kwargs = kw
    /\ tags = tg
    /\ cursor = NoCursor
    /\ result = [kind |-> "none", results |-> <<>>, prev |-> NoCursor,
                 next |-> NoCursor, error |-> ""]
    /\ pages = <<>>
    /\ session = [backend |-> "none", tags |-> tg, same_filters |-> TRUE, deleted |-> {}]
    /\ trace = NoTrace

\* every status on every group, searched with and without a status
InitStatus ==
    \E grp \in [GroupIds -> {[DefaultGroup EXCEPT !.status = s] : s \in GroupStatus}],
       sc \in Scopes,
       kw \in Cross(Optional("status", GroupStatus), {"limit" :> 1, "limit" :> NumGroups}) :
        Start(grp, GroupEnvironmentRows(grp, Everywhere),
              EnvironmentTagRows(grp, TaggedProd), {}, kw @@ sc.kw, sc.tags)

\* every assignee on every group, searched by assigned_to and/or unassigned
InitAssign ==
    \E grp \in [GroupIds -> {[DefaultGroup EXCEPT !.assignee = u] : u \in Users \cup {NoUser}}],
       sc \in Scopes,
       kw \in Cross(Cross(Optional("assigned_to", Users), Optional("unassigned", BOOLEAN)),
                    {"limit" :> 1, "limit" :> NumGroups}) :
        Start(grp, GroupEnvironmentRows(grp, Everywhere),
              EnvironmentTagRows(grp, TaggedProd), {}, kw @@ sc.kw, sc.tags)

RangeFields == {"first_seen", "last_seen", "active_at", "times_seen"}

\* the lower-bound and upper-bound parameter of a field
RangeParameters(field) ==
    CASE field = "first_seen" -> <<"age_from", "age_to">>
      [] field = "last_seen" -> <<"last_seen_from", "last_seen_to">>
      [] field = "active_at" -> <<"active_at_from", "active_at_to">>
      [] field = "times_seen" -> <<"times_seen_lower", "times_seen_upper">>

Bound(parameter, B, flags) ==
    {(parameter :> b) @@ ((parameter \o "_inclusive") :> f) : b \in B, f \in flags}

\* no bound, one bound with its flag, one bound without its flag, or both bounds
RangeKwargs(field) ==
    LET lower == RangeParameters(field)[1]
        upper == RangeParameters(field)[2]
    IN {<<>>, lower :> 1, upper :> MaxScalar}
       \cup Bound(lower, Scalars, BOOLEAN)
       \cup Bound(upper, Scalars, BOOLEAN)
       \cup Cross(Bound(lower, {1}, BOOLEAN), Bound(upper, {2}, BOOLEAN))

\* a filter selects a set of groups whatever their ids: one assignment of the
\* values to the groups per multiset of values (the non-decreasing one)
Ascending(V) == {f \in [GroupIds -> V] : \A g, h \in GroupIds : g < h => f[g] <= f[h]}

\* every value of one scalar field on the groups, searched with bounds on it
InitRange ==
    \E field \in RangeFields, values \in Ascending(Scalars), sc \in Scopes :
        \E kw \in Cross(RangeKwargs(field), {"limit" :> 1, "limit" :> NumGroups}) :
            LET grp == [g \in GroupIds |-> [DefaultGroup EXCEPT ![field] = values[g]]]
            IN Start(grp, GroupEnvironmentRows(grp, Everywhere),
                     EnvironmentTagRows(grp, TaggedProd), {}, kw @@ sc.kw, sc.tags)

\* every ranking of the groups, ties included, paged with every limit
InitPage ==
    \E values \in [GroupIds -> Scalars], sc \in Scopes,
       kw \in Cross(Optional("sort_by", SortByValues),
                    {"limit" :> n : n \in 1..NumGroups}) :
        LET grp == [g \in GroupIds |->
                       [DefaultGroup EXCEPT !.last_seen = values[g],
                                            !.first_seen = values[g],
                                            !.times_seen = Shift(values[g])]]
        IN Start(grp, GroupEnvironmentRows(grp, Everywhere),
                 EnvironmentTagRows(grp, TaggedProd), {}, kw @@ sc.kw, sc.tags)

\* where a group can be: its project, its GroupEnvironment rows and the
\* environment names its tag values carry
Placements ==
    { [project |-> "p1", member |-> {}, tagged |-> {}],
      [project |-> "p1", member |-> {1}, tagged |-> {"prod"}],
      [project |-> "p1", member |-> {2}, tagged |-> {"staging"}],
      [project |-> "p1", member |-> {1, 2}, tagged |-> {"prod", "staging"}],
      [project |-> "p1", member |-> {}, tagged |-> {"prod"}],
      [project |-> "p1", member |-> {2}, tagged |-> {"prod"}],
      [project |-> "p2", member |-> {3}, tagged |-> {"prod"}] }

EnvironmentCalls ==
    { [kw |-> <<>>, tags |-> <<>>],
      [kw |-> "environment_id" :> 1, tags |-> "environment" :> "prod"],
      [kw |-> "environment_id" :> 2, tags |-> "environment" :> "staging"],
      [kw |-> "environment_id" :> 1, tags |-> "environment" :> "staging"],
      [kw |-> "environment_id" :> 1, tags |-> <<>>],
      [kw |-> "environment_id" :> 2, tags |-> "environment" :> "qa"] }

\* every placement of every group, searched in each environment
InitEnv ==
    \E place \in [GroupIds -> Placements], call \in EnvironmentCalls,
       kw \in {"limit" :> 1, "limit" :> NumGroups} :
        LET grp == [g \in GroupIds |-> [DefaultGroup EXCEPT !.project = place[g].project]]
        IN Start(grp,
                 GroupEnvironmentRows(grp, [g \in GroupIds |-> place[g].member]),
                 EnvironmentTagRows(grp, [g \in GroupIds |-> place[g].tagged]),
                 {}, kw @@ call.kw, call.tags)

TagProfiles ==
    << {}, {<<"k1", "v2">>}, {<<"k1", "v1">>}, {<<"k1", "v1">>, <<"k2", "v1">>},
       {<<"k2", "v1">>} >>

TagFilters == Cross(Optional("k1", {"v1", ANY}), Optional("k2", {"v1", ANY}))

\* every multiset of tag profiles on the groups, searched with every tags filter
InitTags ==
    \E profile \in Ascending(DOMAIN TagProfiles), sc \in Scopes, tg \in TagFilters,
       kw \in {"limit" :> 1, "limit" :> NumGroups}
                \cup Cross({"limit" :> NumGroups}, Bound("age_from", {1}, {TRUE})) :
        Start([g \in GroupIds |-> DefaultGroup],
              GroupEnvironmentRows([g \in GroupIds |-> DefaultGroup], Everywhere),
              EnvironmentTagRows([g \in GroupIds |-> DefaultGroup], TaggedProd)
                  \cup TagRows([g \in GroupIds |-> DefaultGroup],
                               [g \in GroupIds |-> TagProfiles[profile[g]]]),
              {}, kw @@ sc.kw, tg @@ sc.tags)

\* every first release on every group, searched by version and by the EMPTY sentinel
InitRelease ==
    \E releases \in [GroupIds -> {NoRelease} \cup {r.id : r \in Release}], sc \in Scopes,
       tg \in Optional("k1", {"v1"}),
       kw \in Cross(Cross(Optional("first_release", {EMPTY, "v1", "v2"}),
                          {<<>>} \cup Bound("age_from", {2}, {TRUE})),
                    {"limit" :> 1, "limit" :> NumGroups}) :
        LET grp == [g \in GroupIds |->
                       [DefaultGroup EXCEPT !.first_release = releases[g],
                                            !.first_seen = Min(g, MaxScalar)]]
        IN Start(grp, GroupEnvironmentRows(grp, Everywhere),
                 EnvironmentTagRows(grp, TaggedProd)
                     \cup TagRows(grp, [g \in GroupIds |->
                                           IF g = 1 THEN {<<"k1", "v1">>} ELSE {}]),
                 {}, kw @@ sc.kw, tg @@ sc.tags)

DateKwargs ==
    Cross(Optional("date_from", Scalars) \cup Bound("date_from", Scalars, {FALSE}),
          Optional("date_to", Scalars))

\* one event per group at every time, searched with an event date range
InitDate ==
    \E times \in [GroupIds -> Scalars], sc \in Scopes,
       kw \in Cross(DateKwargs, {"limit" :> 1, "limit" :> NumGroups}) :
        Start([g \in GroupIds |-> DefaultGroup],
              GroupEnvironmentRows([g \in GroupIds |-> DefaultGroup], Everywhere),
              EnvironmentTagRows([g \in GroupIds |-> DefaultGroup], TaggedProd),
              {[group_id |-> g, project_id |-> Project, datetime |-> times[g],
                message |-> <<"a">>] : g \in GroupIds},
              kw @@ sc.kw, sc.tags)

MiscGroups ==
    { DefaultGroup,
      [DefaultGroup EXCEPT !.message = <<"A", "b">>],
      [DefaultGroup EXCEPT !.bookmarks = {"u1"}],
      [DefaultGroup EXCEPT !.subscriptions = {"u1"}],
      [DefaultGroup EXCEPT !.times_seen = 2] }

MiscKwargs ==
    Optional("query", {<<>>, <<"a">>, <<"a", "B">>})
    \cup Optional("bookmarked_by", Users)
    \cup Optional("subscribed_by", Users)
    \cup Optional("times_seen", {1, 2})

\* the remaining filters: text, bookmarks, subscriptions, exact times_seen
InitMisc ==
    \E grp \in [GroupIds -> MiscGroups], sc \in Scopes,
       kw \in Cross(MiscKwargs, {"limit" :> 1, "limit" :> NumGroups}) :
        Start(grp, GroupEnvironmentRows(grp, Everywhere),
              EnvironmentTagRows(grp, TaggedProd), {}, kw @@ sc.kw, sc.tags)

\* the groups of the order family: row n of OrderGroups on the groups the
\* assignment gives it
OrderGroups ==
    << DefaultGroup,
       [DefaultGroup EXCEPT !.assignee = "u1", !.first_seen = 2, !.times_seen = 2],
       [DefaultGroup EXCEPT !.first_seen = MaxScalar, !.active_at = 2, !.first_release = 1],
       [DefaultGroup EXCEPT !.assignee = "u1", !.first_seen = 2, !.active_at = MaxScalar,
                            !.times_seen = 2, !.first_release = 1] >>

\* one filter each: a handler of every registry, and a scalar bound given
\* without its inclusive flag
OrderFilters ==
    {<<>>, "assigned_to" :> "u1", "unassigned" :> FALSE, "status" :> UNRESOLVED,
     "times_seen" :> 2, "first_release" :> "v1", "age_to" :> 2}
    \cup Bound("active_at_from", {2}, {TRUE})
    \cup Bound("age_from", {2}, {TRUE})
    \cup Bound("age_to", {2}, BOOLEAN)

\* up to three filters at once on groups that each filter splits differently
InitOrder ==
    \E rows \in Ascending(DOMAIN OrderGroups), sc \in Scopes,
       kw \in Cross(Cross(OrderFilters, Cross(OrderFilters, OrderFilters)),
                    {"limit" :> 1, "limit" :> NumGroups}) :
        LET grp == [g \in GroupIds |-> OrderGroups[rows[g]]]
        IN Start(grp, GroupEnvironmentRows(grp, Everywhere),
                 EnvironmentTagRows(grp, TaggedProd), {}, kw @@ sc.kw, sc.tags)

\* two ranks over the groups, ties included, searched in the environment with
\* pages of one, two and all issues
InitHydrate ==
    \E values \in [GroupIds -> {1, 2}], limit \in {1, 2, NumGroups},
       kw \in Optional("sort_by", {"priority"}) :
        LET grp == [g \in GroupIds |->
                       [DefaultGroup EXCEPT !.last_seen = values[g],
                                            !.times_seen = values[g]]]
        IN Start(grp, GroupEnvironmentRows(grp, Everywhere),
                 EnvironmentTagRows(grp, TaggedProd), {},
                 kw @@ ("limit" :> limit) @@ ("environment_id" :> 1),
                 "environment" :> "prod")

Init ==
    \/ InitHydrate
    \/ InitOrder
    \/ InitStatus
    \/ InitAssign
    \/ InitRange
    \/ InitPage
    \/ InitEnv
    \/ InitTags
    \/ InitRelease
    \/ InitDate
    \/ InitMisc

Spec == Init /\ [][Next]_vars
SpecStatus == InitStatus /\ [][Next]_vars
SpecAssign == InitAssign /\ [][Next]_vars
SpecRange == InitRange /\ [][Next]_vars
SpecPage == InitPage /\ [][Next]_vars
SpecEnv == InitEnv /\ [][Next]_vars
SpecTags == InitTags /\ [][Next]_vars
SpecRelease == InitRelease /\ [][Next]_vars
SpecDate == InitDate /\ [][Next]_vars
SpecMisc == InitMisc /\ [][Next]_vars
SpecOrder == InitOrder /\ [][Next]_vars
SpecHydrate == InitHydrate /\ [][Next]_vars

\* ------------------------------------------------------------------ properties
\* a pagination run, started without a cursor and continued with the same
\* filters over the same issues, has delivered its last page
Complete ==
    /\ session.backend # "none"
    /\ session.same_filters
    /\ session.deleted = {}
    /\ result.kind = "page"
    /\ ~result.next.has_results

Returned == {pages[i] : i \in DOMAIN pages}

\* the environment named by the tags of the run
ScopedTo(g) ==
    /\ \E ge \in group_environments :
           ge.group_id = g /\ ge.environment_id = kwargs.environment_id
    /\ \E r \in group_tag_values :
           /\ r.group_id = g
           /\ r.key = "environment"
           /\ r.value = session.tags["environment"]

\* issue g is in the searched project and, in a search given an environment
\* (its id and, in the tags, its name), in that environment
InScope(g) ==
    /\ groups[g].project = Project
    /\ (Has(kwargs, "environment_id") /\ Has(session.tags, "environment")) => ScopedTo(g)

\* C1: on either path a search without status returns no issue whose status is
\* pending_deletion, deletion_in_progress or pending_merge, and a search with
\* status=X returns exactly the issues in scope whose status is X, for every X
C1_StatusFilter ==
    Complete =>
        IF Has(kwargs, "status")
        THEN Returned = {g \in DOMAIN groups : InScope(g) /\ groups[g].status = kwargs.status}
        ELSE \A g \in Returned : groups[g].status \notin DefaultExcluded

\* the issues a search without other filters selects: in scope and not in a
\* default-excluded status
Searchable == {g \in DOMAIN groups : InScope(g) /\ groups[g].status \notin DefaultExcluded}

\* the same search, on the same path, with keyword arguments kw: what it selects
Selected(kw) ==
    IF session.backend = "django"
    THEN DjangoQuery(kw, session.tags, NoCursor).trace.candidates
    ELSE EnvQuery(kw, session.tags, NoCursor, "declared",
                  CHOOSE o \in ItemOrders(Without(session.tags, "environment")) : TRUE
                 ).trace.candidates

\* C2: on either path, with both assigned_to=U and unassigned given, the result
\* is that of the same search with only assigned_to=U: exactly the issues
\* assigned to U that match the other filters
C2_AssignedToWins ==
    (Complete /\ Has(kwargs, "assigned_to") /\ Has(kwargs, "unassigned")) =>
        /\ Returned = Selected(Without(kwargs, "unassigned"))
        /\ Returned = {g \in Searchable : groups[g].assignee = kwargs.assigned_to}

\* the score the run ranks issue g by
Score(g) ==
    IF session.backend = "env" /\ Has(kwargs, "environment_id")
    THEN value_to_cursor_score(SortBy(kwargs),
             sort_expression(SortBy(kwargs),
                             EnvironmentTagValue(g, session.tags["environment"])))
    ELSE sort_clause(SortBy(kwargs), groups[g])

FieldValue(g, field) ==
    IF session.backend = "env" /\ Has(kwargs, "environment_id") /\ field # "active_at"
    THEN EnvironmentTagValue(g, session.tags["environment"])[field]
    ELSE groups[g][field]

WithinBounds(g, field) ==
    LET lower == RangeParameters(field)[1]
        upper == RangeParameters(field)[2]
        v == FieldValue(g, field)
    IN /\ Has(kwargs, lower) =>
            IF kwargs[lower \o "_inclusive"] THEN v >= kwargs[lower] ELSE v > kwargs[lower]
       /\ Has(kwargs, upper) =>
            IF kwargs[upper \o "_inclusive"] THEN v <= kwargs[upper] ELSE v < kwargs[upper]

FlagsGiven == \A p \in ScalarParameters : Has(kwargs, p) => Has(kwargs, p \o "_inclusive")

\* C4: on either path a lower bound B returns exactly the issues with field > B
\* when exclusive and field >= B when inclusive, an upper bound B those with
\* field < B when exclusive and field <= B when inclusive, for all four fields
C4_ScalarRange ==
    (Complete /\ FlagsGiven) =>
        Returned = {g \in Searchable : \A field \in RangeFields : WithinBounds(g, field)}

\* an exclusive lower bound B on the environment path that leaves out an issue
\* with field = B and returns one with field = B + 1
C4_Witness ==
    /\ Complete
    /\ FlagsGiven
    /\ session.backend = "env"
    /\ \E field \in RangeFields :
          LET lower == RangeParameters(field)[1]
          IN /\ Has(kwargs, lower)
             /\ ~kwargs[lower \o "_inclusive"]
             /\ \E g \in Searchable \ Returned : FieldValue(g, field) = kwargs[lower]
             /\ \E g \in Returned : FieldValue(g, field) = kwargs[lower] + 1

\* C5: every environment-path call whose filters contain date_from or date_to
\* fails with an assertion error before any query is run
C5_DateRangeRejected ==
    (session.backend = "env" /\ (Has(kwargs, "date_from") \/ Has(kwargs, "date_to"))) =>
        /\ result.kind = "error"
        /\ result.error = "AssertionError"
        /\ trace.applied = {}

\* C6: a search call leaves the caller's tags mapping as it was
C6_FiltersUnchanged == [][SearchCall => tags' = tags]_vars

\* the issues carrying `key` with `value`, or with any value for the wildcard
MatchSet(key, value) ==
    {g \in GroupIds :
        \E r \in group_tag_values :
            r.group_id = g /\ r.key = key /\ (value = ANY \/ r.value = value)}

\* C7: in the environment-scoped path the candidates left after the tag filters
\* are the initial candidates that are in the match set of every tag filter,
\* whatever the order the filters were iterated in
C7_TagIntersection ==
    (session.backend = "env" /\ trace.scoped /\ session.same_filters) =>
        trace.candidates =
            {g \in trace.initial :
                \A k \in DOMAIN Without(session.tags, "environment") :
                    g \in MatchSet(k, session.tags[k])}

\* candidates {1,2,3}, a value filter matching {1,2} and a wildcard matching {2,3}
C7_Witness ==
    /\ session.backend = "env"
    /\ trace.scoped
    /\ session.same_filters
    /\ {1, 2, 3} \subseteq trace.initial
    /\ DOMAIN session.tags = {"environment", "k1", "k2"}
    /\ session.tags["k1"] = "v1"
    /\ session.tags["k2"] = ANY
    /\ MatchSet("k1", "v1") \cap {1, 2, 3} = {1, 2}
    /\ MatchSet("k2", ANY) \cap {1, 2, 3} = {2, 3}
    /\ trace.candidates \cap {1, 2, 3} = {2}

\* C8: in the environment-scoped path every returned issue is in the searched
\* project and has a GroupEnvironment row for environment_id; the issues of the
\* environment are the ones returned
C8_EnvironmentMembership ==
    (session.backend = "env" /\ trace.scoped) =>
        /\ \A i \in DOMAIN result.results :
              /\ groups[result.results[i]].project = Project
              /\ \E ge \in group_environments :
                    /\ ge.group_id = result.results[i]
                    /\ ge.environment_id = kwargs.environment_id
        /\ Complete => Returned = Searchable

\* issue 1 only in prod, issue 2 only in staging, environment_id of prod: {1}
C8_Witness ==
    /\ Complete
    /\ session.backend = "env"
    /\ trace.scoped
    /\ kwargs.environment_id = 1
    /\ {ge.environment_id : ge \in {x \in group_environments : x.group_id = 1}} = {1}
    /\ {ge.environment_id : ge \in {x \in group_environments : x.group_id = 2}} = {2}
    /\ \E r \in group_tag_values : r.group_id = 2 /\ r.value = "staging"
    /\ Returned = {1}

\* the stages that precede the first_release filter in either pipeline
BeforeFirstRelease ==
    {"query", "status", "status_default", "bookmarked_by", "assigned_to", "unassigned",
     "subscribed_by", "active_at_from", "active_at_to", "group_environment"}

\* C9: on either path a search with first_release EMPTY returns an empty result
\* set without applying the remaining filters
C9_EmptyReleaseShortCircuit ==
    (session.backend # "none" /\ Has(kwargs, "first_release")
        /\ kwargs.first_release = EMPTY) =>
        /\ result.kind # "error"
        /\ result.results = <<>>
        /\ trace.applied \subseteq BeforeFirstRelease

\* the stages that come after the tags filter in the pipeline
AfterTags == {"first_seen", "last_seen", "active_at", "times_seen_eq", "times_seen", "date"}

\* C10: with a non-empty tags filter for which the tag store reports no issue,
\* the search returns an empty Page and applies no filter that comes after tags
C10_EmptyTagsShortCircuit ==
    (session.backend # "none" /\ ~Has(kwargs, "environment_id") /\ DOMAIN tags # {}
        /\ get_group_ids_for_search_filter(kwargs, tags) = {}) =>
        /\ result.kind = "page"
        /\ result.results = <<>>
        /\ trace.applied \cap AfterTags = {}

\* the handlers of a registry whose parameter the caller supplied, and the others
Supplied(handlers, kw) == SelectSeq(handlers, LAMBDA h : Has(kw, h))
Absent(handlers, kw) == SelectSeq(handlers, LAMBDA h : ~Has(kw, h))

\* every order of the elements of a sequence
Orderings(seq) ==
    {[i \in DOMAIN seq |-> seq[o[i]]] :
        o \in {f \in [DOMAIN seq -> DOMAIN seq] : \A i, j \in DOMAIN seq : i # j => f[i] # f[j]}}

\* the asserts of the environment branch pass for the tags of the run
EnvironmentResolved ==
    /\ Has(session.tags, "environment")
    /\ \E e \in Environment :
           /\ e.project = Project
           /\ e.name = session.tags["environment"]
           /\ e.id = kwargs.environment_id

\* the QueryBuilder.build calls of the last EnvironmentDjangoSearchBackend.query:
\* the registry, the queryset it starts from and the model it ranges over
BuildCalls ==
    IF session.backend # "env" \/ ~DateRangeAssertion(kwargs) THEN {}
    ELSE LET base == build(BaseHandlers, EnvBase, kwargs, "Group")
             joined == build(EnvironmentHandlers,
                             JoinGroupEnvironment(base, kwargs.environment_id),
                             kwargs, "GroupEnvironment")
         IN {[handlers |-> BaseHandlers, queryset |-> EnvBase, target |-> "Group"]}
            \cup (IF base.error # "" THEN {}
                  ELSE IF ~Has(kwargs, "environment_id")
                  THEN {[handlers |-> GroupHandlers, queryset |-> base, target |-> "Group"]}
                  ELSE IF ~EnvironmentResolved THEN {}
                  ELSE {[handlers |-> EnvironmentHandlers,
                         queryset |-> JoinGroupEnvironment(base, kwargs.environment_id),
                         target |-> "GroupEnvironment"]}
                       \cup (IF joined.error # "" THEN {}
                             ELSE {[handlers |-> TagValueHandlers,
                                    queryset |-> EnvironmentTagValues(
                                                     joined, session.tags["environment"]),
                                    target |-> session.tags["environment"]]}))

\* the queryset the last call filtered its issues from, built in declaration order
DeclaredOrder ==
    LET last == CHOOSE b \in BuildCalls : b.handlers \in {GroupHandlers, TagValueHandlers}
    IN build(last.handlers, last.queryset, kwargs, last.target)

\* C11: order-independence of filter application.  For every build call of an
\* environment search, the supplied handlers applied in any order, before or
\* after the handlers whose parameter is absent, select the same issue ids as the
\* registry applied in declaration order (and raise exactly when it raises); the
\* handlers whose parameter is absent leave the queryset as it was; and the
\* issues the call filtered from, built in the order the interpreter iterated
\* the registry, are those of the declaration order (compared while the issues
\* the call saw are all still there).
C11_OrderIndependence ==
    /\ \A b \in BuildCalls :
        LET declared == build(b.handlers, b.queryset, kwargs, b.target)
            absent == Absent(b.handlers, kwargs)
        IN /\ build(absent, b.queryset, kwargs, b.target) = b.queryset
           /\ \A p \in Orderings(Supplied(b.handlers, kwargs)) :
                \A handlers \in {p, p \o absent, absent \o p} :
                    LET built == build(handlers, b.queryset, kwargs, b.target)
                    IN /\ built.error = declared.error
                       /\ declared.error = "" =>
                            /\ built.ids = declared.ids
                            /\ built.applied = declared.applied
    /\ (session.backend = "env" /\ trace # NoTrace /\ session.deleted = {}) =>
            /\ trace.initial = DeclaredOrder.ids
            /\ DeclaredOrder.applied \subseteq trace.applied

\* an environment search with three supplied filters of one registry, each of
\* which alone selects other issues than the three together
C11_Witness ==
    /\ session.backend = "env"
    /\ trace.scoped
    /\ {"age_from", "age_to", "times_seen"} \subseteq DOMAIN kwargs
    /\ trace.initial # {}
    /\ \A h \in {"age_from", "age_to", "times_seen"} :
            \E b \in BuildCalls :
                /\ b.handlers = TagValueHandlers
                /\ build(<<h>>, b.queryset, kwargs, b.target).ids # trace.initial

\* the page the environment branch returns when no Group row is deleted while
\* it runs: the same call on the issues as they were before the step
Undisturbed(horder, torder) ==
    Returns(EnvQuery(kwargs, tags, cursor', horder, torder), DOMAIN groups)

\* C12: hydration tolerates concurrent deletion.  An environment-scoped search
\* during which issues of its page are deleted completes without error and
\* returns the page it would have returned without the deleted issues: the
\* surviving issues in the same order, with the same next and prev cursors.
C12_HydrationTolerant ==
    [][(SearchCall /\ groups' # groups) =>
        \A horder \in HandlerOrders, torder \in ItemOrders(Without(tags, "environment")) :
            LET page == Undisturbed(horder, torder)
                survivors == DOMAIN groups'
            IN /\ result'.kind = "page"
               /\ result'.error = ""
               /\ page.kind = "page"
               /\ (DOMAIN groups) \ survivors
                      \subseteq {page.results[i] : i \in DOMAIN page.results}
               /\ result'.results = SelectSeq(page.results, LAMBDA g : g \in survivors)
               /\ result'.next = page.next
               /\ result'.prev = page.prev]_vars

\* the first call of an environment-scoped run lost an issue of its page to a
\* concurrent deletion and returned two others
C12_Witness ==
    /\ session.backend = "env"
    /\ trace.scoped
    /\ ~cursor.given
    /\ session.deleted # {}
    /\ session.deleted = GroupIds \ DOMAIN groups
    /\ result.kind = "page"
    /\ Len(result.results) >= 2
    /\ Cardinality(trace.candidates) = Len(result.results) + Cardinality(session.deleted)
====
